---- MODULE Spec2Model ----
(***************************************************************************)
(* Model of src/src/evaluation.h: the EvalNode hierarchy (Constant,        *)
(* Variable, UnaryOperator, BinaryOperator, Expression) with its cache,    *)
(* and EvaluationContext with its two name maps, its ordered expression    *)
(* list and its calc() pass.                                               *)
(*                                                                         *)
(* Doubles are modelled by integers: the naturals 0..  are ordinary        *)
(* numbers, NaN is the one not-a-number value.  A C++ exception leaving    *)
(* eval() is modelled by the result code NotSet.                           *)
(***************************************************************************)
EXTENDS Integers, Sequences, FiniteSets, TLC

\* ------------------------------------------------------------------ bounds
\* Largest number passed to VariableNode::set (values are 0..MaxVal and NaN).
MaxVal == 1
\* Largest length of d_expressions (number of addExpression calls).
MaxExprs == 2

\* ------------------------------------------------------- values of doubles
\* nan(""): the initial d_cachedValue, and the result of 0/0.
NaN == -1
\* Result code of eval()/calc() when std::runtime_error("Variable not set")
\* leaves the call.
NotSet == -2
\* The value ConstantNode "k" is constructed with.
KValue == 2
\* A null shared_ptr, as std::map::operator[] default-constructs it.
NullPtr == "nullptr"

SetValues == (0..MaxVal) \cup {NaN}

\* ------------------------------------------------------------ the graph
\* The node graph the host program builds (nodes are immutable once built):
\*   a, b   VariableNode("a"), VariableNode("b")
\*   k      ConstantNode(2)
\*   sum    BinaryOperatorNode(a, b, +)
\*   dbl    BinaryOperatorNode(a, k, *)
\*   rat    UnaryOperatorNode(sum, x -> x*x/x)     (0*0/0 is NaN)
\*   eDbl   ExpressionNode("E1", dbl)
\*   eRat   ExpressionNode("E2", rat)
\*   eNest  ExpressionNode("E2", eDbl)
\*   eK     ExpressionNode("K", k)
VariableNodes == {"a", "b"}
ConstantNodes == {"k"}
UnaryNodes == {"rat"}
BinaryNodes == {"sum", "dbl"}
ExpressionNodes == {"eDbl", "eRat", "eNest", "eK"}
Nodes == VariableNodes \cup ConstantNodes \cup UnaryNodes \cup BinaryNodes
            \cup ExpressionNodes

\* ExpressionNode::d_expression and UnaryOperatorNode::d_node.
d_node(n) ==
    CASE n = "rat" -> "sum"
      [] n = "eDbl" -> "dbl"
      [] n = "eRat" -> "rat"
      [] n = "eNest" -> "eDbl"
      [] n = "eK" -> "k"

\* BinaryOperatorNode::d_leftNode.
d_leftNode(n) ==
    CASE n = "sum" -> "a"
      [] n = "dbl" -> "a"

\* BinaryOperatorNode::d_rightNode.
d_rightNode(n) ==
    CASE n = "sum" -> "b"
      [] n = "dbl" -> "k"

\* ExpressionNode::d_name / VariableNode::d_name: the name a node is built
\* with, which is also the name the host program registers it under.
d_name(n) ==
    CASE n = "a" -> "a"
      [] n = "b" -> "b"
      [] n = "eDbl" -> "E1"
      [] n = "eRat" -> "E2"
      [] n = "eNest" -> "E2"
      [] n = "eK" -> "K"

\* The expressions the host program registers with the context.
Registrable == {"eDbl", "eRat", "eNest"}
ExprNames == {"E1", "E2"}
VarNames == {"a", "b"}

\* UnaryOperatorNode::d_function of node n applied to x (IEEE: an operation
\* on NaN is NaN, 0*0/0 is NaN, x*x/x is x otherwise).
UnaryFunction(n, x) ==
    IF x = NaN \/ x = 0 THEN NaN ELSE x

\* BinaryOperatorNode::d_function of node n applied to x, y.
BinaryFunction(n, x, y) ==
    IF x = NaN \/ y = NaN THEN NaN
    ELSE IF n = "sum" THEN x + y ELSE x * y

\* ------------------------------------------------------------------ state
VARIABLES
    d_cachedValue,    \* EvalNode::d_cachedValue of every node
    d_needCalc,       \* VariableNode::d_needCalc of every Variable
    d_expressionMap,  \* EvaluationContext::d_expressionMap
    d_variableMap,    \* EvaluationContext::d_variableMap
    d_expressions,    \* EvaluationContext::d_expressions
    pc,               \* position inside EvaluationContext::calc, or "idle"
    idx,              \* loop index of the first for loop of calc
    target,           \* expression_name of the running calc
    lastOp,           \* the operation called last, with its outcome ("running"
                      \* while calc is under way)
    precOp,           \* the successful calc of the same name that completed
                      \* right before the running (or last) calc began, if any
    recomputed,       \* calls of EvalNode::calc that took the eval() branch,
                      \* in the running (or last) operation
    retRecomputed,    \* the same, for the final calc() of line 179 alone
    everSet           \* the Variables set() has been called on

vars == <<d_cachedValue, d_needCalc, d_expressionMap, d_variableMap,
          d_expressions, pc, idx, target, lastOp, precOp, recomputed,
          retRecomputed, everSet>>

ctxVars == <<d_expressionMap, d_variableMap, d_expressions>>
nodeVars == <<d_cachedValue, d_needCalc>>
passVars == <<pc, idx, target>>

\* --------------------------------------------------------------- the nodes
\* needCalc() with BinaryOperatorNode::needCalc looking at the left operand
\* alone.
RECURSIVE needCalcLeftOnly(_)
needCalcLeftOnly(n) ==
    CASE n \in ConstantNodes -> FALSE
      [] n \in VariableNodes -> d_needCalc[n]
      [] n \in UnaryNodes -> needCalcLeftOnly(d_node(n))
      [] n \in BinaryNodes -> needCalcLeftOnly(d_leftNode(n))
      [] n \in ExpressionNodes -> needCalcLeftOnly(d_node(n))

\* virtual needCalc(): the dirtiness predicate of each node class.
RECURSIVE needCalc(_)
needCalc(n) ==
    CASE n \in ConstantNodes -> FALSE
      [] n \in VariableNodes -> d_needCalc[n]
      [] n \in UnaryNodes -> needCalc(d_node(n))
      [] n \in BinaryNodes -> needCalc(d_leftNode(n)) \/ needCalc(d_rightNode(n))
      [] n \in ExpressionNodes -> needCalc(d_node(n))

\* eval() with VariableNode::eval returning the cache without the isnan test.
RECURSIVE evalUnchecked(_)
evalUnchecked(n) ==
    CASE n \in ConstantNodes -> d_cachedValue[n]
      [] n \in VariableNodes -> d_cachedValue[n]
      [] n \in UnaryNodes -> UnaryFunction(n, evalUnchecked(d_node(n)))
      [] n \in BinaryNodes ->
            BinaryFunction(n, evalUnchecked(d_leftNode(n)),
                           evalUnchecked(d_rightNode(n)))
      [] n \in ExpressionNodes -> evalUnchecked(d_node(n))

\* eval() with ExpressionNode::eval taking the cached value of a wrapped
\* Expression when it has one, instead of evaluating it.
RECURSIVE evalWrappedFromCache(_)
evalWrappedFromCache(n) ==
    CASE n \in ConstantNodes -> d_cachedValue[n]
      [] n \in VariableNodes ->
            IF d_cachedValue[n] = NaN THEN NotSet ELSE d_cachedValue[n]
      [] n \in UnaryNodes ->
            LET x == evalWrappedFromCache(d_node(n))
            IN  IF x = NotSet THEN NotSet ELSE UnaryFunction(n, x)
      [] n \in BinaryNodes ->
            LET x == evalWrappedFromCache(d_leftNode(n))
                y == evalWrappedFromCache(d_rightNode(n))
            IN  IF x = NotSet \/ y = NotSet THEN NotSet
                ELSE BinaryFunction(n, x, y)
      [] n \in ExpressionNodes ->
            IF d_node(n) \in ExpressionNodes /\ d_cachedValue[d_node(n)] # NaN
            THEN d_cachedValue[d_node(n)]
            ELSE evalWrappedFromCache(d_node(n))

\* virtual eval(): the recomputation rule of each node class.  Operators and
\* expressions call eval() of their operands.  NotSet when the exception of
\* VariableNode::eval leaves the call.
RECURSIVE eval(_)
eval(n) ==
    CASE n \in ConstantNodes -> d_cachedValue[n]
      [] n \in VariableNodes ->
            IF d_cachedValue[n] = NaN THEN NotSet ELSE d_cachedValue[n]
      [] n \in UnaryNodes ->
            LET x == eval(d_node(n))
            IN  IF x = NotSet THEN NotSet ELSE UnaryFunction(n, x)
      [] n \in BinaryNodes ->
            LET x == eval(d_leftNode(n))
                y == eval(d_rightNode(n))
            IN  IF x = NotSet \/ y = NotSet THEN NotSet
                ELSE BinaryFunction(n, x, y)
      [] n \in ExpressionNodes -> eval(d_node(n))

\* EvalNode::calc without the needCalc() test: a present cache is always used.
calcRecomputesCacheOnly(n) == d_cachedValue[n] = NaN

\* The condition of EvalNode::calc: recompute rather than use the cache.
calcRecomputes(n) == d_cachedValue[n] = NaN \/ needCalc(n)

\* What EvalNode::calc returns (NotSet when eval() throws).
calcResult(n) == IF calcRecomputes(n) THEN eval(n) ELSE d_cachedValue[n]

\* d_cachedValue after EvalNode::calc on n: written only when eval() returned.
calcCache(n) ==
    IF calcRecomputes(n) /\ eval(n) # NotSet
    THEN [d_cachedValue EXCEPT ![n] = eval(n)]
    ELSE d_cachedValue

\* ---------------------------------------------------------------- records
Done(op, name, outcome, value) ==
    [op |-> op, name |-> name, outcome |-> outcome, value |-> value]

NoOp == Done("none", "", "void", 0)

\* The ways a call through a null shared_ptr can end.
NullDeref == {"segfault", "arbitrary"}

\* std::map with key k set to v.
MapPut(m, k, v) == [x \in DOMAIN m \cup {k} |-> IF x = k THEN v ELSE m[x]]

EmptyMap == [x \in {} |-> NullPtr]

\* ------------------------------------------------------------------- Init
Init ==
    /\ d_cachedValue = [n \in Nodes |-> IF n \in ConstantNodes THEN KValue ELSE NaN]
    /\ d_needCalc = [v \in VariableNodes |-> TRUE]
    /\ d_expressionMap = EmptyMap
    /\ d_variableMap = EmptyMap
    /\ d_expressions = <<>>
    /\ pc = "idle"
    /\ idx = 0
    /\ target = ""
    /\ lastOp = NoOp
    /\ precOp = NoOp
    /\ recomputed = 0
    /\ retRecomputed = 0
    /\ everSet = {}

\* ------------------------------------------------------- node operations
\* VariableNode::set(value).
set(v, value) ==
    /\ d_cachedValue' = [d_cachedValue EXCEPT ![v] = value]
    /\ d_needCalc' = [d_needCalc EXCEPT ![v] = TRUE]
    /\ everSet' = everSet \cup {v}

\* Variable.set(value) called by the host program.
Set(v, value) ==
    /\ pc = "idle"
    /\ set(v, value)
    /\ lastOp' = Done("set", v, "void", value)
    /\ recomputed' = 0
    /\ retRecomputed' = 0
    /\ UNCHANGED <<ctxVars, passVars>>
    /\ precOp' = NoOp

\* VariableNode::cache() (freeze) called by the host program.
Cache(v) ==
    /\ pc = "idle"
    /\ d_needCalc' = [d_needCalc EXCEPT ![v] = FALSE]
    /\ lastOp' = Done("cache", v, "void", 0)
    /\ recomputed' = 0
    /\ retRecomputed' = 0
    /\ UNCHANGED <<d_cachedValue, ctxVars, passVars, everSet>>
    /\ precOp' = NoOp

\* EvalNode::calc() (evaluate) called by the host program on any node.
Calc(n) ==
    /\ pc = "idle"
    /\ d_cachedValue' = calcCache(n)
    /\ lastOp' = IF calcResult(n) = NotSet
                 THEN Done("calc", n, "NotSet", 0)
                 ELSE Done("calc", n, "value", calcResult(n))
    /\ recomputed' = IF calcRecomputes(n) THEN 1 ELSE 0
    /\ retRecomputed' = 0
    /\ UNCHANGED <<d_needCalc, ctxVars, passVars, everSet>>
    /\ precOp' = NoOp

\* ---------------------------------------------------- context operations
\* The names the host program passes to the context's expression operations
\* (a name is unknown as long as nothing is registered under it).
CallNames == ExprNames

\* The key order of std::map<std::string, ...> over the variable names.
VarKeyOrder == <<"a", "b">>

\* EvaluationContext::isKnownExpression(name).
isKnownExpression(name) == name \in DOMAIN d_expressionMap

\* EvaluationContext::isKnownVariable(name).
isKnownVariable(name) == name \in DOMAIN d_variableMap

\* d_expressionMap after getExpression(name): operator[] inserts a null
\* pointer for a missing key.
getExpressionMap(name) ==
    IF name \in DOMAIN d_expressionMap THEN d_expressionMap
    ELSE MapPut(d_expressionMap, name, NullPtr)

\* d_variableMap after getVariable(name): operator[] inserts a null pointer
\* for a missing key.
getVariableMap(name) ==
    IF name \in DOMAIN d_variableMap THEN d_variableMap
    ELSE MapPut(d_variableMap, name, NullPtr)

\* The host program asks isKnownExpression(name).
IsKnownExpression(name) ==
    /\ pc = "idle"
    /\ lastOp' = Done("isKnownExpression", name,
                      IF isKnownExpression(name) THEN "true" ELSE "false", 0)
    /\ recomputed' = 0
    /\ retRecomputed' = 0
    /\ UNCHANGED <<nodeVars, ctxVars, passVars, everSet>>
    /\ precOp' = NoOp

\* The host program asks isKnownVariable(name).
IsKnownVariable(name) ==
    /\ pc = "idle"
    /\ lastOp' = Done("isKnownVariable", name,
                      IF isKnownVariable(name) THEN "true" ELSE "false", 0)
    /\ recomputed' = 0
    /\ retRecomputed' = 0
    /\ UNCHANGED <<nodeVars, ctxVars, passVars, everSet>>
    /\ precOp' = NoOp

\* EvaluationContext::getExpression(name) (lookupExpression).
GetExpression(name) ==
    /\ pc = "idle"
    /\ d_expressionMap' = getExpressionMap(name)
    /\ lastOp' = Done("getExpression", name, getExpressionMap(name)[name], 0)
    /\ recomputed' = 0
    /\ retRecomputed' = 0
    /\ UNCHANGED <<nodeVars, d_variableMap, d_expressions, passVars, everSet>>
    /\ precOp' = NoOp

\* EvaluationContext::getVariable(name) (lookupVariable).
GetVariable(name) ==
    /\ pc = "idle"
    /\ d_variableMap' = getVariableMap(name)
    /\ lastOp' = Done("getVariable", name, getVariableMap(name)[name], 0)
    /\ recomputed' = 0
    /\ retRecomputed' = 0
    /\ UNCHANGED <<nodeVars, d_expressionMap, d_expressions, passVars, everSet>>
    /\ precOp' = NoOp

\* EvaluationContext::addExpression(d_name(e), e) (registerExpression).
AddExpression(e) ==
    /\ pc = "idle"
    /\ Len(d_expressions) < MaxExprs
    /\ d_expressionMap' = MapPut(d_expressionMap, d_name(e), e)
    /\ d_expressions' = Append(d_expressions, e)
    /\ lastOp' = Done("addExpression", d_name(e), "void", 0)
    /\ recomputed' = 0
    /\ retRecomputed' = 0
    /\ UNCHANGED <<nodeVars, d_variableMap, passVars, everSet>>
    /\ precOp' = NoOp

\* EvaluationContext::addVariable(d_name(v), v) (registerVariable).
AddVariable(v) ==
    /\ pc = "idle"
    /\ d_variableMap' = MapPut(d_variableMap, d_name(v), v)
    /\ lastOp' = Done("addVariable", d_name(v), "void", 0)
    /\ recomputed' = 0
    /\ retRecomputed' = 0
    /\ UNCHANGED <<nodeVars, d_expressionMap, d_expressions, passVars, everSet>>
    /\ precOp' = NoOp

\* EvaluationContext::setVariable(name, value): set(value) on the Variable
\* registered under name, nothing when the name is not known.  A known name
\* whose entry is a null pointer is a call through a null pointer.
SetVariable(name, value) ==
    /\ pc = "idle"
    /\ recomputed' = 0
    /\ retRecomputed' = 0
    /\ UNCHANGED <<ctxVars, idx, target>>
    /\ precOp' = NoOp
    /\ IF ~isKnownVariable(name)
       THEN /\ lastOp' = Done("setVariable", name, "void", value)
            /\ UNCHANGED <<nodeVars, everSet, pc>>
       ELSE IF d_variableMap[name] = NullPtr
       THEN /\ \E o \in NullDeref : lastOp' = Done("setVariable", name, o, value)
            /\ pc' = "halted"
            /\ UNCHANGED <<nodeVars, everSet>>
       ELSE /\ set(d_variableMap[name], value)
            /\ lastOp' = Done("setVariable", name, "void", value)
            /\ UNCHANGED pc

\* ------------------------------------------------ EvaluationContext::calc
\* The keys of d_variableMap that come before the first null entry, in key
\* order (all keys when no entry is null).
RECURSIVE keysBeforeNull(_)
keysBeforeNull(i) ==
    IF i > Len(VarKeyOrder) THEN {}
    ELSE LET key == VarKeyOrder[i]
         IN  IF key \notin DOMAIN d_variableMap THEN keysBeforeNull(i + 1)
             ELSE IF d_variableMap[key] = NullPtr THEN {}
             ELSE {key} \cup keysBeforeNull(i + 1)

hasNullVariable == \E key \in DOMAIN d_variableMap : d_variableMap[key] = NullPtr

\* d_needCalc after the second loop of calc: cache() on every registered
\* Variable up to the first null entry.
frozenNeedCalc ==
    [v \in VariableNodes |->
        IF \E key \in keysBeforeNull(1) : d_variableMap[key] = v
        THEN FALSE ELSE d_needCalc[v]]

\* calc with the lookup of expression_name moved before the two loops: an
\* unknown name throws before any expression is evaluated or Variable frozen.
RecalculateFindFirst(name) ==
    /\ pc = "idle"
    /\ pc' = IF name \notin DOMAIN d_expressionMap THEN "idle"
             ELSE IF d_expressions = <<>> THEN "freeze" ELSE "loop"
    /\ idx' = IF name \notin DOMAIN d_expressionMap \/ d_expressions = <<>>
              THEN 0 ELSE 1
    /\ target' = name
    /\ precOp' = IF lastOp.op = "recalculate" /\ lastOp.outcome = "value"
                     /\ lastOp.name = name
                  THEN lastOp ELSE NoOp
    /\ recomputed' = 0
    /\ retRecomputed' = 0
    /\ lastOp' = IF name \notin DOMAIN d_expressionMap
                 THEN Done("recalculate", name, "UnknownExpression", 0)
                 ELSE Done("recalculate", name, "running", 0)
    /\ UNCHANGED <<nodeVars, ctxVars, everSet>>

\* calc without its first loop: only the target is evaluated, by the final
\* calc() of the return statement.
RecalculateTargetOnly(name) ==
    /\ pc = "idle"
    /\ pc' = "freeze"
    /\ idx' = 0
    /\ target' = name
    /\ precOp' = IF lastOp.op = "recalculate" /\ lastOp.outcome = "value"
                     /\ lastOp.name = name
                  THEN lastOp ELSE NoOp
    /\ recomputed' = 0
    /\ retRecomputed' = 0
    /\ lastOp' = Done("recalculate", name, "running", 0)
    /\ UNCHANGED <<nodeVars, ctxVars, everSet>>

\* calc(expression_name) is entered (recalculate).
Recalculate(name) ==
    /\ pc = "idle"
    /\ pc' = IF d_expressions = <<>> THEN "freeze" ELSE "loop"
    /\ idx' = IF d_expressions = <<>> THEN 0 ELSE 1
    /\ target' = name
    /\ precOp' = IF lastOp.op = "recalculate" /\ lastOp.outcome = "value"
                     /\ lastOp.name = name
                  THEN lastOp ELSE NoOp
    /\ recomputed' = 0
    /\ retRecomputed' = 0
    /\ lastOp' = Done("recalculate", name, "running", 0)
    /\ UNCHANGED <<nodeVars, ctxVars, everSet>>

\* The first loop of calc with the Variables frozen after each expression
\* instead of after the loop.
CalcLoopFreezing ==
    /\ pc = "loop"
    /\ idx <= Len(d_expressions)
    /\ LET e == d_expressions[idx]
       IN  /\ d_cachedValue' = calcCache(e)
           /\ recomputed' = recomputed + (IF calcRecomputes(e) THEN 1 ELSE 0)
           /\ IF calcResult(e) = NotSet
              THEN /\ pc' = "idle"
                   /\ idx' = 0
                   /\ lastOp' = Done("recalculate", target, "NotSet", 0)
              ELSE /\ pc' = IF idx = Len(d_expressions) THEN "freeze" ELSE "loop"
                   /\ idx' = IF idx = Len(d_expressions) THEN 0 ELSE idx + 1
                   /\ UNCHANGED lastOp
    /\ d_needCalc' = frozenNeedCalc
    /\ UNCHANGED <<ctxVars, target, precOp, retRecomputed, everSet>>

\* The first loop of calc with the Variables frozen on the way out when an
\* expression throws.
CalcLoopFreezeOnThrow ==
    /\ pc = "loop"
    /\ idx <= Len(d_expressions)
    /\ LET e == d_expressions[idx]
       IN  /\ d_cachedValue' = calcCache(e)
           /\ recomputed' = recomputed + (IF calcRecomputes(e) THEN 1 ELSE 0)
           /\ IF calcResult(e) = NotSet
              THEN /\ pc' = "idle"
                   /\ idx' = 0
                   /\ lastOp' = Done("recalculate", target, "NotSet", 0)
                   /\ d_needCalc' = frozenNeedCalc
              ELSE /\ pc' = IF idx = Len(d_expressions) THEN "freeze" ELSE "loop"
                   /\ idx' = IF idx = Len(d_expressions) THEN 0 ELSE idx + 1
                   /\ UNCHANGED <<lastOp, d_needCalc>>
    /\ UNCHANGED <<ctxVars, target, precOp, retRecomputed, everSet>>

\* One iteration of `for (auto& expression : d_expressions) expression->calc()`.
\* An exception of eval() leaves calc at once; after the last iteration the
\* second loop is next.
CalcLoop ==
    /\ pc = "loop"
    /\ idx <= Len(d_expressions)
    /\ LET e == d_expressions[idx]
       IN  /\ d_cachedValue' = calcCache(e)
           /\ recomputed' = recomputed + (IF calcRecomputes(e) THEN 1 ELSE 0)
           /\ IF calcResult(e) = NotSet
              THEN /\ pc' = "idle"
                   /\ idx' = 0
                   /\ lastOp' = Done("recalculate", target, "NotSet", 0)
              ELSE /\ pc' = IF idx = Len(d_expressions) THEN "freeze" ELSE "loop"
                   /\ idx' = IF idx = Len(d_expressions) THEN 0 ELSE idx + 1
                   /\ UNCHANGED lastOp
    /\ UNCHANGED <<d_needCalc, ctxVars, target, precOp, retRecomputed, everSet>>

\* `for (auto& kv : d_variableMap) kv.second->cache()`: every registered
\* Variable is frozen; the loop ends at a null entry.
CalcFreeze ==
    /\ pc = "freeze"
    /\ d_needCalc' = frozenNeedCalc
    /\ IF hasNullVariable
       THEN /\ \E o \in NullDeref : lastOp' = Done("recalculate", target, o, 0)
            /\ pc' = "halted"
       ELSE /\ pc' = "find"
            /\ UNCHANGED lastOp
    /\ UNCHANGED <<d_cachedValue, ctxVars, idx, target, precOp, recomputed,
                   retRecomputed, everSet>>

\* `if (d_expressionMap.find(expression_name) == end) throw "Not found"`.
CalcFind ==
    /\ pc = "find"
    /\ IF target \notin DOMAIN d_expressionMap
       THEN /\ pc' = "idle"
            /\ lastOp' = Done("recalculate", target, "UnknownExpression", 0)
       ELSE /\ pc' = "return"
            /\ UNCHANGED lastOp
    /\ UNCHANGED <<nodeVars, ctxVars, idx, target, precOp, recomputed,
                   retRecomputed, everSet>>

\* `return d_expressionMap[expression_name]->calc()`.
CalcReturn ==
    /\ pc = "return"
    /\ LET e == d_expressionMap[target]
       IN  IF e = NullPtr
           THEN /\ \E o \in NullDeref : lastOp' = Done("recalculate", target, o, 0)
                /\ pc' = "halted"
                /\ UNCHANGED <<d_cachedValue, recomputed, retRecomputed>>
           ELSE /\ d_cachedValue' = calcCache(e)
                /\ recomputed' = recomputed + (IF calcRecomputes(e) THEN 1 ELSE 0)
                /\ retRecomputed' = (IF calcRecomputes(e) THEN 1 ELSE 0)
                /\ pc' = "idle"
                /\ lastOp' = IF calcResult(e) = NotSet
                             THEN Done("recalculate", target, "NotSet", 0)
                             ELSE Done("recalculate", target, "value", calcResult(e))
    /\ UNCHANGED <<d_needCalc, ctxVars, idx, target, precOp, everSet>>

CalcStep == CalcLoop \/ CalcFreeze \/ CalcFind \/ CalcReturn

\* --------------------------------------------------------- specifications
\* The context used through registerExpression, registerVariable,
\* setVariable, Variable.set and recalculate alone.
NextCtx ==
    \/ \E e \in Registrable : AddExpression(e)
    \/ \E v \in VariableNodes : AddVariable(v)
    \/ \E name \in VarNames, value \in SetValues : SetVariable(name, value)
    \/ \E v \in VariableNodes, value \in SetValues : Set(v, value)
    \/ \E name \in CallNames : Recalculate(name)
    \/ CalcStep

SpecCtx == Init /\ [][NextCtx]_vars

\* The nodes the host program calls evaluate() on directly: one of each
\* class, the unary operator over a binary one, an expression over an
\* operator and one over a constant.
Evaluated == {"a", "b", "k", "sum", "rat", "eRat", "eK"}

\* Direct use of the nodes: Variable.set, Variable freeze and evaluate().
NextNode ==
    \/ \E v \in VariableNodes, value \in SetValues : Set(v, value)
    \/ \E v \in VariableNodes : Cache(v)
    \/ \E n \in Evaluated : Calc(n)

SpecNode == Init /\ [][NextNode]_vars

\* The context with its lookups and existence predicates.
NextLookup ==
    \/ \E e \in Registrable : AddExpression(e)
    \/ \E v \in VariableNodes : AddVariable(v)
    \/ \E name \in VarNames, value \in SetValues : SetVariable(name, value)
    \/ \E name \in CallNames : IsKnownExpression(name)
    \/ \E name \in VarNames : IsKnownVariable(name)
    \/ \E name \in CallNames : GetExpression(name)
    \/ \E name \in VarNames : GetVariable(name)
    \/ \E name \in CallNames : Recalculate(name)
    \/ CalcStep

SpecLookup == Init /\ [][NextLookup]_vars

\* The nodes the host program evaluates directly beside the context's passes:
\* an inner operator of a registrable expression and a nested expression.
MixedEvaluated == {"rat", "eNest"}

\* Mixed use: Variable.set and evaluate() on nodes directly, interleaved with
\* registrations and recalculate passes of the context.
NextMixed ==
    \/ \E v \in VariableNodes, value \in SetValues : Set(v, value)
    \/ \E n \in MixedEvaluated : Calc(n)
    \/ \E e \in Registrable : AddExpression(e)
    \/ \E v \in VariableNodes : AddVariable(v)
    \/ \E name \in CallNames : Recalculate(name)
    \/ CalcStep

SpecMixed == Init /\ [][NextMixed]_vars

\* Every operation of the nodes and of the context, in any interleaving.
\* SpecCtx, SpecNode and SpecLookup above allow subsets of these operations:
\* each of their behaviours is a behaviour of Spec.
Next ==
    \/ \E v \in VariableNodes, value \in SetValues : Set(v, value)
    \/ \E v \in VariableNodes : Cache(v)
    \/ \E n \in Evaluated : Calc(n)
    \/ \E e \in Registrable : AddExpression(e)
    \/ \E v \in VariableNodes : AddVariable(v)
    \/ \E name \in VarNames, value \in SetValues : SetVariable(name, value)
    \/ \E name \in CallNames : IsKnownExpression(name)
    \/ \E name \in VarNames : IsKnownVariable(name)
    \/ \E name \in CallNames : GetExpression(name)
    \/ \E name \in VarNames : GetVariable(name)
    \/ \E name \in CallNames : Recalculate(name)
    \/ CalcStep

Spec == Init /\ [][Next]_vars

\* ------------------------------------------------- notions the claims use
\* The Variables in the operand subgraph of n (n itself for a Variable).
RECURSIVE variablesOf(_)
variablesOf(n) ==
    CASE n \in ConstantNodes -> {}
      [] n \in VariableNodes -> {n}
      [] n \in UnaryNodes -> variablesOf(d_node(n))
      [] n \in BinaryNodes -> variablesOf(d_leftNode(n)) \cup variablesOf(d_rightNode(n))
      [] n \in ExpressionNodes -> variablesOf(d_node(n))

\* The value of n: its operator functions applied to the current values of
\* the Variables and Constants below it.  Defined when no Variable below n is
\* NaN.
RECURSIVE valueOf(_)
valueOf(n) ==
    CASE n \in ConstantNodes -> KValue
      [] n \in VariableNodes -> d_cachedValue[n]
      [] n \in UnaryNodes -> UnaryFunction(n, valueOf(d_node(n)))
      [] n \in BinaryNodes ->
            BinaryFunction(n, valueOf(d_leftNode(n)), valueOf(d_rightNode(n)))
      [] n \in ExpressionNodes -> valueOf(d_node(n))

\* The expressions of the evaluation list.
listed == {d_expressions[i] : i \in 1..Len(d_expressions)}

\* The names registerExpression was called with.
registeredExpressionNames == {d_name(e) : e \in listed}

\* The Variables registered in the context, and their names.
registeredVariables ==
    {d_variableMap[name] : name \in DOMAIN d_variableMap} \ {NullPtr}
registeredVariableNames ==
    {name \in DOMAIN d_variableMap : d_variableMap[name] # NullPtr}

\* The last operation was a calc(name) that returned a value.
recalculated ==
    /\ pc = "idle"
    /\ lastOp.op = "recalculate"
    /\ lastOp.outcome = "value"

\* ------------------------------------------------------------------ claims
\* C1: under registerExpression, registerVariable, setVariable, Variable.set
\* and recalculate alone, every recalculate(name) that returns a value returns
\* the value of the target expression under the current values of the
\* Variables below it, never a value computed from an older Variable value.
C1_RecalculateIsFresh ==
    recalculated =>
        lastOp.value = valueOf(d_expressionMap[lastOp.name])

\* C1 witness: a recalculate of E1 = a * 2 returned 2 for a = 1 from a cache
\* that was filled in an earlier pass (the pass itself recomputed nothing).
C1_Witness ==
    /\ recalculated
    /\ lastOp.name = "E1"
    /\ lastOp.value = 2
    /\ recomputed = 0

C3_NeverSetFails ==
    /\ \A n \in Nodes :
          (variablesOf(n) \ everSet # {}) => calcResult(n) = NotSet
    /\ (lastOp.op = "calc" /\ variablesOf(lastOp.name) \ everSet # {})
          => lastOp.outcome = "NotSet"

\* C3 witness: evaluate() on the expression over (a + b) failed with NotSet
\* with a set to 1 and b never set and frozen.
C3_Witness ==
    /\ lastOp.op = "calc"
    /\ lastOp.name = "eRat"
    /\ lastOp.outcome = "NotSet"
    /\ d_cachedValue["a"] = 1
    /\ "b" \notin everSet
    /\ ~d_needCalc["b"]

\* The nodes above Variable v: the operators and expressions with v in their
\* operand subgraph.
ancestors(v) == {n \in Nodes \ VariableNodes : v \in variablesOf(n)}

C4_VariableContract ==
    /\ \A v \in VariableNodes : needCalc(v)
    /\ [][ \A v \in VariableNodes :
             /\ (lastOp'.op = "set" /\ lastOp'.name = v)
                   => /\ needCalc(v)'
                      /\ calcResult(v)' = lastOp'.value
             /\ (lastOp'.op = "cache" /\ lastOp'.name = v)
                   => /\ ~needCalc(v)'
                      /\ d_cachedValue' = d_cachedValue
                      /\ calcResult(v)' = calcResult(v)
             /\ ~(lastOp'.op \in {"set", "cache"} /\ lastOp'.name = v)
                   => needCalc(v)' = needCalc(v)
         ]_vars

\* The operation called last has ended (calc is not under way).
ended == pc \in {"idle", "halted"} /\ lastOp.outcome # "running"

\* C6: recalculate(name) with a name never passed to registerExpression fails
\* with UnknownExpression, also after lookups of unknown names.  (Stated with
\* the NotSet of a registered expression, which calc raises before it looks
\* the name up, let through: the claim itself is stronger.)
C6_UnknownNameFails ==
    (ended /\ lastOp.op = "recalculate"
           /\ lastOp.name \notin registeredExpressionNames)
        => lastOp.outcome \in {"UnknownExpression", "NotSet"}

\* C7: isKnownExpression(name) is true exactly for the names passed to
\* registerExpression and isKnownVariable(name) exactly for those passed to
\* registerVariable; the two predicates and the two lookups leave both maps
\* and the evaluation list unchanged.
C7_PredicatesAndLookupsPure ==
    /\ [](\A name \in CallNames :
             isKnownExpression(name) <=> name \in registeredExpressionNames)
    /\ [](\A name \in VarNames :
             isKnownVariable(name) <=> name \in registeredVariableNames)
    /\ [][ lastOp'.op \in {"isKnownExpression", "isKnownVariable",
                           "getExpression", "getVariable"}
              => UNCHANGED ctxVars ]_vars

\* C10: setVariable(name, value) with a name never passed to registerVariable
\* does not fail and changes no stored value, dirty flag, cache, map or list,
\* also after lookups of unknown names; with a registered name it does what
\* set(value) does on that Variable, and nothing else.
C10_SetVariableContract ==
    [][ lastOp'.op = "setVariable" =>
          /\ lastOp'.outcome = "void"
          /\ UNCHANGED ctxVars
          /\ IF lastOp'.name \in registeredVariableNames
             THEN LET v == d_variableMap[lastOp'.name]
                  IN  /\ d_cachedValue' = [d_cachedValue EXCEPT ![v] = lastOp'.value]
                      /\ d_needCalc' = [d_needCalc EXCEPT ![v] = TRUE]
             ELSE UNCHANGED nodeVars
      ]_vars

\* Every Variable below a registered expression is registered in the context.
allReachableRegistered ==
    \A e \in listed : variablesOf(e) \subseteq registeredVariables

\* C8: with every Variable below a registered expression registered, the
\* second of two consecutive recalculate(name) calls that return a value
\* returns the same value and recomputes nothing.
C8_SecondPassFromCache ==
    (recalculated /\ precOp.op = "recalculate" /\ allReachableRegistered)
        => /\ lastOp.value = precOp.value
           /\ recomputed = 0

\* C9: in a recalculate that returns a value, the final evaluate() of the
\* target returns the value cached in the first loop without recomputing.
\* (Stated for graphs whose Variables are all registered; the claim says
\* every graph.)
C9_FinalEvaluateFromCache ==
    (recalculated /\ allReachableRegistered) => retRecomputed = 0

RECURSIVE nodesBelow(_)
nodesBelow(n) ==
    CASE n \in ConstantNodes \cup VariableNodes -> {n}
      [] n \in UnaryNodes \cup ExpressionNodes -> {n} \cup nodesBelow(d_node(n))
      [] n \in BinaryNodes ->
            {n} \cup nodesBelow(d_leftNode(n)) \cup nodesBelow(d_rightNode(n))

\* C12: a recomputation takes every operand's value through the operand's
\* memoizing evaluate(): after an evaluate() on a node that returned a
\* number, every operator and expression node of its subgraph caches its
\* value under the current Variable values.
C12_OperandsMemoized ==
    (pc = "idle" /\ lastOp.op = "calc" /\ lastOp.outcome = "value"
                /\ lastOp.value # NaN)
        => \A m \in nodesBelow(lastOp.name) \ (VariableNodes \cup ConstantNodes) :
               d_cachedValue[m] = valueOf(m)

\* The expression of the latest registerExpression call under name.
mostRecent(name) ==
    LET last == CHOOSE i \in 1..Len(d_expressions) :
                    /\ d_name(d_expressions[i]) = name
                    /\ \A j \in (i + 1)..Len(d_expressions) :
                           d_name(d_expressions[j]) # name
    IN  d_expressions[last]

\* C13: the first loop of calc evaluates the expressions in the order of the
\* registerExpression calls; a recalculate(name) that returns a value returns
\* the value of the expression registered last under name, and the loop
\* evaluates one expression per distinct registered name (its idx-th
\* evaluation is never beyond the number of distinct names).
C13_OneEvaluationPerName ==
    /\ recalculated => lastOp.value = valueOf(mostRecent(lastOp.name))
    /\ pc = "loop" => idx <= Cardinality(registeredExpressionNames)

\* C14: a recalculate fails with NotSet only in the first loop, at the
\* expression whose evaluation failed, and neither the entry of the call nor
\* any iteration of that loop changes a Variable's dirty flag or stored value,
\* so after the failed call they are as before it; an iteration over an
\* expression with a dirty Variable below it recomputes the expression when
\* it evaluates.
C14_FailedPassFreezesNothing ==
    [][ /\ (lastOp'.op = "recalculate" /\ lastOp'.outcome = "NotSet"
                /\ lastOp.outcome = "running")
              => /\ pc = "loop"
                 /\ pc' = "idle"
                 /\ eval(d_expressions[idx]) = NotSet
        /\ ((pc = "idle" /\ lastOp'.op = "recalculate") \/ pc = "loop")
              => /\ d_needCalc' = d_needCalc
                 /\ \A v \in VariableNodes : d_cachedValue'[v] = d_cachedValue[v]
        /\ (/\ pc = "loop"
            /\ \E v \in variablesOf(d_expressions[idx]) : d_needCalc[v]
            /\ eval(d_expressions[idx]) # NotSet)
              => /\ recomputed' = recomputed + 1
                 /\ d_cachedValue'[d_expressions[idx]] = valueOf(d_expressions[idx])
      ]_vars

\* C14 witness: with E1 = a * 2 and E2 = f(a + b) registered, a registered
\* and set to 1, b never set, recalculate("E2") recomputed E1, started the
\* recomputation of E2 and failed with NotSet; a is still dirty and still
\* holds 1.
C14_Witness ==
    /\ ended
    /\ lastOp = Done("recalculate", "E2", "NotSet", 0)
    /\ d_expressions = <<"eDbl", "eRat">>
    /\ "a" \in registeredVariables
    /\ d_cachedValue["a"] = 1
    /\ d_needCalc["a"]
    /\ "b" \notin everSet
    /\ d_cachedValue["eDbl"] = 2
    /\ recomputed = 2

\* C15: a recalculate(t) ends with NotSet whenever some registered expression
\* has a never-set Variable below it, whatever t is, and a recalculate returns
\* a value only when every registered expression evaluates.
C15_AnyUnsetOperandFailsPass ==
    /\ (ended /\ lastOp.op = "recalculate"
              /\ \E e \in listed : ~(variablesOf(e) \subseteq everSet))
          => lastOp.outcome = "NotSet"
    /\ recalculated => \A e \in listed : eval(e) # NotSet

\* C15 witness: E1 = a * 2 and E2 = f(a + b) are registered, a is set to 1 and
\* b was never set; recalculate("E1"), whose target does not depend on b,
\* failed with NotSet.
C15_Witness ==
    /\ ended
    /\ lastOp = Done("recalculate", "E1", "NotSet", 0)
    /\ listed = {"eDbl", "eRat"}
    /\ d_expressionMap["E1"] = "eDbl"
    /\ d_cachedValue["a"] = 1
    /\ "b" \notin everSet

\* C16: a cached value, once present, is never cleared: no step other than a
\* set() on the Variable itself takes a node's cache from a value back to
\* Unset, an evaluate() that fails leaves every cache as it was, and only
\* set() on a Variable changes the Variable's stored value.
C16_CacheNeverCleared ==
    [][ /\ \A n \in Nodes :
              (d_cachedValue[n] # NaN /\ d_cachedValue'[n] = NaN)
                  => (lastOp'.op = "set" /\ lastOp'.name = n)
        /\ (lastOp'.op = "calc" /\ lastOp'.outcome = "NotSet")
              => d_cachedValue' = d_cachedValue
        /\ \A v \in VariableNodes :
              d_cachedValue'[v] # d_cachedValue[v]
                  => (lastOp'.op = "set" /\ lastOp'.name = v)
      ]_vars

\* C17: Unset is distinct from every number.  Whatever value the latest
\* set() stored in a Variable, NaN included, an evaluate() of the Variable
\* returns it and does not fail with NotSet; and an operator or expression
\* node that an evaluate() has just computed, with no dirty Variable below it,
\* has a cache and is not recomputed by the next evaluate(), also when the
\* computed result is NaN.
C17_UnsetIsNoNumber ==
    /\ (pc = "idle" /\ lastOp.op = "set")
          => calcResult(lastOp.name) = lastOp.value
    /\ (pc = "idle" /\ lastOp.op = "calc" /\ lastOp.outcome = "value"
                    /\ lastOp.name \notin VariableNodes
                    /\ ~needCalc(lastOp.name))
          => ~calcRecomputes(lastOp.name)

\* C18: under mixed use no clean node holds a stale cache.  Stated for the
\* nodes a pass has just visited: after a recalculate that returned a number,
\* every node of the target's subgraph that has a cached value and is not
\* dirty caches its value under the current Variable values, so that an
\* evaluate() of it returns that value.
C18_NoStaleCache ==
    (recalculated /\ lastOp.value # NaN) =>
        \A n \in nodesBelow(d_expressionMap[lastOp.name]) :
            (d_cachedValue[n] # NaN /\ ~needCalc(n))
                => /\ d_cachedValue[n] = valueOf(n)
                   /\ calcResult(n) = valueOf(n)

\* C19: the name map and the evaluation list describe the same expressions:
\* every entry of the name map refers to an expression of the list, every
\* expression of the list is the entry of some name, and every entry of the
\* variable map refers to a Variable, so that the freeze loop can call
\* cache() on it.
C19_MapAndListAgree ==
    /\ \A name \in DOMAIN d_expressionMap :
           d_expressionMap[name] # NullPtr /\ d_expressionMap[name] \in listed
    /\ \A e \in listed :
           \E name \in DOMAIN d_expressionMap : d_expressionMap[name] = e
    /\ \A name \in DOMAIN d_variableMap : d_variableMap[name] \in VariableNodes

\* No two registered expressions share a name.
distinctNames ==
    \A e1 \in listed, e2 \in listed : d_name(e1) = d_name(e2) => e1 = e2

\* The result of recalculate(name) as a function of the set S of registered
\* expressions and the current Variable values, with no reference to the
\* order of registration: NotSet when some expression of S cannot be
\* evaluated, else UnknownExpression when S has no expression of that name,
\* else the value of the expression of that name.
outcomeOf(S, name) ==
    IF \E e \in S : variablesOf(e) \cap {v \in VariableNodes : d_cachedValue[v] = NaN} # {}
    THEN Done("recalculate", name, "NotSet", 0)
    ELSE IF \A e \in S : d_name(e) # name
    THEN Done("recalculate", name, "UnknownExpression", 0)
    ELSE Done("recalculate", name, "value",
              valueOf(CHOOSE e \in S : d_name(e) = name))

====
